---- MODULE Spec2Model ----
(***************************************************************************)
(* Model of the product orchestrator endpoint create_product_from_webhook  *)
(* (app/api/v1/endpoints/products.py).  One request is followed from the   *)
(* parsed payload to its outcome.  Each action is one run of the handler   *)
(* coroutine between two awaits; the two stage-2 tasks started by          *)
(* asyncio.gather complete on their own, in any order.                     *)
(*                                                                         *)
(* JSON values are tagged records: JNull, JInt(n), JBool(b), JStr(s),      *)
(* JList(seq), JObj(dict).  A dict is a function from key strings to       *)
(* values; a key that is absent is not in its DOMAIN.                      *)
(***************************************************************************)
EXTENDS Integers, Sequences, FiniteSets, TLC

VARIABLES pc, payload, calls, completed, user_info_response, vendor_id,
          video_task_present, task_urls, responses, image_ids, video_id,
          prep_response, basalam_ready_payload, final_response, result

vars == <<pc, payload, calls, completed, user_info_response, vendor_id,
          video_task_present, task_urls, responses, image_ids, video_id,
          prep_response, basalam_ready_payload, final_response, result>>

(***************************************************************************)
(* Bounds of the model.                                                    *)
(***************************************************************************)
\* longest processed_images array the image service returns
MaxImages == 2

(***************************************************************************)
(* JSON values and Python truthiness.                                      *)
(***************************************************************************)
JNull == [t |-> "null"]

JInt(n) == [t |-> "int", v |-> n]

JBool(b) == [t |-> "bool", v |-> b]

JStr(s) == [t |-> "str", v |-> s]

JList(s) == [t |-> "list", v |-> s]

JObj(d) == [t |-> "obj", v |-> d]

EmptyDict == [k \in {} |-> JNull]

\* Python's bool(x) for a decoded JSON value
Truthy(j) ==
    CASE j.t = "null" -> FALSE
      [] j.t = "bool" -> j.v
      [] j.t = "int"  -> j.v # 0
      [] j.t = "str"  -> j.v # ""
      [] j.t = "list" -> j.v # <<>>
      [] j.t = "obj"  -> DOMAIN j.v # {}

\* dict.get(key, default)
Get(d, k, default) == IF k \in DOMAIN d THEN d[k] ELSE default

\* d[key] = value
Put(d, k, val) == [x \in (DOMAIN d) \cup {k} |-> IF x = k THEN val ELSE d[x]]

(***************************************************************************)
(* The external service URLs.                                              *)
(***************************************************************************)
SMART_UPLOADER_URL == "https://smart-uploader.basalam.dev/process-images"

VIDEO_CHECK_URL == "https://dwh-n8n.basalam.dev/webhook-test/Video-Check"

DESCRIPTION_SERVICE_URL == "https://request-maker.basalam.dev/api/v1/generate-description"

BASALAM_USER_INFO_URL == "https://core.basalam.com/v3/users/me"

\* the template filled with the vendor id
BASALAM_PRODUCTS_URL_TEMPLATE(vid) ==
    <<"https://core.basalam.com/v3/vendors/", vid, "/products">>

(***************************************************************************)
(* Results of a downstream call: a transport-level exception raised by the *)
(* client, or a response with a status code, a text and a decoded body.    *)
(***************************************************************************)
Pending == [kind |-> "pending"]

Exc(name) == [kind |-> "exception", exc |-> name]

Resp(code, body) == [kind |-> "response", status_code |-> code, json |-> body]

\* mutant: only server errors raise
RaisesForStatusServerOnly(res) == res.status_code >= 500

\* httpx.Response.raise_for_status raises HTTPStatusError unless 2xx
RaisesForStatus(res) == ~(res.status_code \in 200..299)

TransportErrors == {Exc("ConnectError"), Exc("ReadTimeout")}

ErrorStatuses == {404, 500}

ErrorResponses == {Resp(s, EmptyDict) : s \in ErrorStatuses}

(***************************************************************************)
(* Outcomes of the request.                                                *)
(***************************************************************************)
NoError == [kind |-> "none"]

\* fastapi.HTTPException(status_code, detail); arg is the URL or response
\* text formatted into the detail
HTTPException(code, msg, arg) ==
    [kind |-> "HTTPException", status_code |-> code, detail |-> <<msg, arg>>]

\* an exception no except clause of the handler catches
Unhandled(name) == [kind |-> "unhandled", exc |-> name]

\* e.response.text of the failed response
ResponseText(res) == <<"text of", res.status_code>>

(***************************************************************************)
(* The records of the downstream calls issued, in order.                   *)
(***************************************************************************)
Call(svc, url, body) == [svc |-> svc, url |-> url, json |-> body]

Issued == {calls[i].svc : i \in DOMAIN calls}

Completed == {completed[i] : i \in DOMAIN completed}

\* position of a service in a sequence of service names, 0 if absent
Pos(seq, svc) ==
    IF \E i \in DOMAIN seq : seq[i] = svc
    THEN CHOOSE i \in DOMAIN seq : seq[i] = svc
    ELSE 0

(***************************************************************************)
(* Step 1: the incoming payload (TelegramWebhookPayload).                  *)
(***************************************************************************)
VideoLinks == {JNull, JStr("https://example.com/video.mp4")}

Stocks == {0, 5}

Payloads ==
    [message : {"shirt"},
     photos : {<<"https://i.postimg.cc/photo.jpg">>},
     stock : Stocks,
     video : VideoLinks,
     access_token : {"token"}]

\* video_link = str(video) if video else None
VideoLink(p) == IF Truthy(p.video) THEN p.video ELSE JNull

Init ==
    /\ pc = "start"
    /\ payload \in Payloads
    /\ calls = <<>>
    /\ completed = <<>>
    /\ user_info_response = Pending
    /\ vendor_id = JNull
    /\ video_task_present = FALSE
    /\ task_urls = <<>>
    /\ responses = <<>>
    /\ image_ids = <<>>
    /\ video_id = JNull
    /\ prep_response = Pending
    /\ basalam_ready_payload = EmptyDict
    /\ final_response = Pending
    /\ result = Pending

\* lines 47-58: extract the payload's data and issue the user-info GET
Start ==
    /\ pc = "start"
    /\ calls' = Append(calls, Call("user_info", BASALAM_USER_INFO_URL,
                                   [Authorization |-> <<"Bearer", payload.access_token>>]))
    /\ pc' = "await_user_info"
    /\ UNCHANGED <<payload, completed, user_info_response, vendor_id,
                   video_task_present, task_urls, responses, image_ids,
                   video_id, prep_response, basalam_ready_payload,
                   final_response, result>>

(***************************************************************************)
(* Step 1.5: user info and vendor id.                                      *)
(***************************************************************************)
VendorIdValues == {JNull, JInt(0), JInt(42)}

\* bodies of a 2xx user-info response: no vendor key, a null vendor, a
\* vendor object without an id, and vendor objects with an id
UserInfoBodies ==
    {EmptyDict, [vendor |-> JNull], [vendor |-> JObj(EmptyDict)]}
    \cup {[vendor |-> JObj([id |-> v])] : v \in VendorIdValues}

UserInfoResults ==
    TransportErrors \cup ErrorResponses
    \cup {Resp(200, b) : b \in UserInfoBodies}

\* mutant: the check of vendor_id (lines 65-67) is missing
UserInfoOutcomeNoVendorCheck(res) ==
    IF res.kind = "exception"
    THEN [error |-> Unhandled(res.exc), vendor_id |-> JNull]
    ELSE IF RaisesForStatus(res)
    THEN [error |-> HTTPException(401, "Authentication failed", ResponseText(res)),
          vendor_id |-> JNull]
    ELSE LET vendor == Get(res.json, "vendor", JObj(EmptyDict)) IN
         IF vendor.t # "obj"
         THEN [error |-> Unhandled("AttributeError"), vendor_id |-> JNull]
         ELSE [error |-> NoError, vendor_id |-> Get(vendor.v, "id", JNull)]

\* mutant: the except clause of lines 72-74 is missing
UserInfoOutcomeStatusUncaught(res) ==
    IF res.kind = "exception"
    THEN [error |-> Unhandled(res.exc), vendor_id |-> JNull]
    ELSE IF RaisesForStatus(res)
    THEN [error |-> Unhandled("HTTPStatusError"), vendor_id |-> JNull]
    ELSE LET vendor == Get(res.json, "vendor", JObj(EmptyDict)) IN
         IF vendor.t # "obj"
         THEN [error |-> Unhandled("AttributeError"), vendor_id |-> JNull]
         ELSE LET vid == Get(vendor.v, "id", JNull) IN
              IF ~Truthy(vid)
              THEN [error |-> HTTPException(400,
                                 "User does not have a valid vendor account.", ""),
                    vendor_id |-> vid]
              ELSE [error |-> NoError, vendor_id |-> vid]

\* lines 58-74, from the return of client.get to the end of the try block
UserInfoOutcome(res) ==
    IF res.kind = "exception"
    THEN [error |-> Unhandled(res.exc), vendor_id |-> JNull]
    ELSE IF RaisesForStatus(res)
    THEN [error |-> HTTPException(401, "Authentication failed", ResponseText(res)),
          vendor_id |-> JNull]
    ELSE LET vendor == Get(res.json, "vendor", JObj(EmptyDict)) IN
         IF vendor.t # "obj"
         THEN [error |-> Unhandled("AttributeError"), vendor_id |-> JNull]
         ELSE LET vid == Get(vendor.v, "id", JNull) IN
              IF ~Truthy(vid)
              THEN [error |-> HTTPException(400,
                                 "User does not have a valid vendor account.", ""),
                    vendor_id |-> vid]
              ELSE [error |-> NoError, vendor_id |-> vid]

(***************************************************************************)
(* Step 2: the media tasks.                                                *)
(***************************************************************************)
\* mutant: the video task is created whether or not there is a link
VideoTaskAlways(video_link) == TRUE

\* lines 84-86
VideoTaskPresent(video_link) == Truthy(video_link)

\* lines 78-91: the requests handed to asyncio.gather, in task order
Stage2Tasks(photo_links, video_link) ==
    <<Call("image", SMART_UPLOADER_URL, [photo_links |-> photo_links])>>
    \o (IF VideoTaskPresent(video_link)
        THEN <<Call("video", VIDEO_CHECK_URL, ("video-link" :> video_link))>>
        ELSE <<>>)

\* lines 58-93: the user-info response is examined, then the media tasks
\* are created and awaited together
AfterUserInfo ==
    /\ pc = "await_user_info"
    /\ \E res \in UserInfoResults :
        LET o == UserInfoOutcome(res)
            tasks == Stage2Tasks(payload.photos, VideoLink(payload))
        IN /\ user_info_response' = res
           /\ completed' = Append(completed, "user_info")
           /\ IF o.error # NoError
              THEN /\ result' = o.error
                   /\ pc' = "done"
                   /\ UNCHANGED <<calls, vendor_id, video_task_present,
                                  task_urls, responses>>
              ELSE /\ vendor_id' = o.vendor_id
                   /\ calls' = calls \o tasks
                   /\ task_urls' = [i \in DOMAIN tasks |-> tasks[i].url]
                   /\ video_task_present' = VideoTaskPresent(VideoLink(payload))
                   /\ responses' = [i \in DOMAIN tasks |-> Pending]
                   /\ pc' = "await_gather"
                   /\ UNCHANGED result
    /\ UNCHANGED <<payload, image_ids, video_id, prep_response,
                   basalam_ready_payload, final_response>>

ImageIdValues == {JNull, JInt(101), JInt(102)}

\* an entry of processed_images: without an id key, or with one
ImageEntries == {EmptyDict} \cup {[id |-> v] : v \in ImageIdValues}

RECURSIVE SeqsUpTo(_, _)
SeqsUpTo(S, n) ==
    IF n = 0 THEN {<<>>}
    ELSE LET shorter == SeqsUpTo(S, n - 1) IN
         shorter \cup {Append(s, e) : s \in shorter, e \in S}

\* bodies of a 2xx image response: no processed_images key, a null one,
\* or an array of at most MaxImages entries
ImageBodies ==
    {EmptyDict, [processed_images |-> JNull]}
    \cup {[processed_images |-> JList(s)] : s \in SeqsUpTo(ImageEntries, MaxImages)}

ImageResults ==
    TransportErrors \cup ErrorResponses \cup {Resp(200, b) : b \in ImageBodies}

VideoIdValues == {JNull, JInt(0), JInt(7)}

\* bodies of a 2xx video-check response
VideoBodies ==
    {EmptyDict, [is_forbidden |-> JBool(TRUE)], [id |-> JInt(7)]}
    \cup {[is_forbidden |-> JBool(f), id |-> v] : f \in BOOLEAN, v \in VideoIdValues}

VideoResults ==
    TransportErrors \cup ErrorResponses \cup {Resp(200, b) : b \in VideoBodies}

\* the image-upload task started by gather completes (line 81)
ImageCompletes ==
    /\ pc = "await_gather"
    /\ responses[1] = Pending
    /\ \E res \in ImageResults : responses' = [responses EXCEPT ![1] = res]
    /\ completed' = Append(completed, "image")
    /\ UNCHANGED <<pc, payload, calls, user_info_response, vendor_id,
                   video_task_present, task_urls, image_ids, video_id,
                   prep_response, basalam_ready_payload, final_response, result>>

\* the video-check task started by gather completes (line 88)
VideoCompletes ==
    /\ pc = "await_gather"
    /\ video_task_present
    /\ responses[2] = Pending
    /\ \E res \in VideoResults : responses' = [responses EXCEPT ![2] = res]
    /\ completed' = Append(completed, "video")
    /\ UNCHANGED <<pc, payload, calls, user_info_response, vendor_id,
                   video_task_present, task_urls, image_ids, video_id,
                   prep_response, basalam_ready_payload, final_response, result>>

\* mutant: the filter "if 'id' in img" is missing, img.get('id') is taken
ImageIdsUnfiltered(processed_images) ==
    [i \in 1..Len(processed_images) |->
        IF "id" \in DOMAIN processed_images[i]
        THEN processed_images[i]["id"] ELSE JNull]

\* line 106: [img['id'] for img in processed_images if 'id' in img]
ImageIds(processed_images) ==
    LET withId == SelectSeq(processed_images, LAMBDA img : "id" \in DOMAIN img)
    IN [i \in 1..Len(withId) |-> withId[i]["id"]]

\* mutant: failed_url is always the first task's URL, task_urls[0]
FirstExceptionAlwaysFirst(rs) ==
    IF \E i \in DOMAIN rs : rs[i].kind = "exception" THEN 1 ELSE 0

\* lines 95-99: the first task, in task order, whose result is an exception
FirstException(rs) ==
    LET failed == {i \in DOMAIN rs : rs[i].kind = "exception"}
    IN IF failed = {} THEN 0
       ELSE CHOOSE i \in failed : \A j \in failed : i <= j

\* mutant: the test of is_forbidden is inverted
AcceptedVideoIdInverted(video_response) ==
    IF Truthy(Get(video_response.json, "is_forbidden", JNull))
    THEN Get(video_response.json, "id", JNull)
    ELSE JNull

\* lines 113-122: the video id taken from the video-check response
AcceptedVideoId(video_response) ==
    IF ~Truthy(Get(video_response.json, "is_forbidden", JNull))
    THEN Get(video_response.json, "id", JNull)
    ELSE JNull

\* mutant: the check of an empty image_ids (lines 108-110) is missing
MediaOutcomeNoEmptyCheck(rs, urls, video_present) ==
    LET fail(e) == [error |-> e, image_ids |-> <<>>, video_id |-> JNull]
        failed == FirstException(rs)
    IN
    IF failed # 0
    THEN fail(HTTPException(504, "Network error for", urls[failed]))
    ELSE IF RaisesForStatus(rs[1])
    THEN fail(HTTPException(502, "Error from media service", urls[1]))
    ELSE LET processed_images == Get(rs[1].json, "processed_images", JList(<<>>)) IN
    IF processed_images.t # "list"
    THEN fail(Unhandled("TypeError"))
    ELSE LET ids == ImageIds(processed_images.v) IN
    IF ~video_present
    THEN [error |-> NoError, image_ids |-> ids, video_id |-> JNull]
    ELSE IF RaisesForStatus(rs[2])
    THEN fail(HTTPException(502, "Error from media service", urls[2]))
    ELSE [error |-> NoError, image_ids |-> ids,
          video_id |-> AcceptedVideoId(rs[2])]

\* mutant: image_response.raise_for_status() (line 104) is missing
MediaOutcomeNoImageStatusCheck(rs, urls, video_present) ==
    LET fail(e) == [error |-> e, image_ids |-> <<>>, video_id |-> JNull]
        failed == FirstException(rs)
    IN
    IF failed # 0
    THEN fail(HTTPException(504, "Network error for", urls[failed]))
    ELSE LET processed_images == Get(rs[1].json, "processed_images", JList(<<>>)) IN
    IF processed_images.t # "list"
    THEN fail(Unhandled("TypeError"))
    ELSE LET ids == ImageIds(processed_images.v) IN
    IF ids = <<>>
    THEN fail(HTTPException(400, "Uploader service returned no valid image IDs.", ""))
    ELSE IF ~video_present
    THEN [error |-> NoError, image_ids |-> ids, video_id |-> JNull]
    ELSE IF RaisesForStatus(rs[2])
    THEN fail(HTTPException(502, "Error from media service", urls[2]))
    ELSE [error |-> NoError, image_ids |-> ids,
          video_id |-> AcceptedVideoId(rs[2])]

\* mutant: the video status is checked before the image ids are collected
MediaOutcomeVideoFirst(rs, urls, video_present) ==
    LET fail(e) == [error |-> e, image_ids |-> <<>>, video_id |-> JNull]
        failed == FirstException(rs)
    IN
    IF failed # 0
    THEN fail(HTTPException(504, "Network error for", urls[failed]))
    ELSE IF RaisesForStatus(rs[1])
    THEN fail(HTTPException(502, "Error from media service", urls[1]))
    ELSE IF video_present /\ RaisesForStatus(rs[2])
    THEN fail(HTTPException(502, "Error from media service", urls[2]))
    ELSE LET processed_images == Get(rs[1].json, "processed_images", JList(<<>>)) IN
    IF processed_images.t # "list"
    THEN fail(Unhandled("TypeError"))
    ELSE LET ids == ImageIds(processed_images.v) IN
    IF ids = <<>>
    THEN fail(HTTPException(400, "Uploader service returned no valid image IDs.", ""))
    ELSE IF ~video_present
    THEN [error |-> NoError, image_ids |-> ids, video_id |-> JNull]
    ELSE [error |-> NoError, image_ids |-> ids,
          video_id |-> AcceptedVideoId(rs[2])]

\* lines 95-126, from the return of gather to the end of the try block
MediaOutcome(rs, urls, video_present) ==
    LET fail(e) == [error |-> e, image_ids |-> <<>>, video_id |-> JNull]
        failed == FirstException(rs)
    IN
    IF failed # 0
    THEN fail(HTTPException(504, "Network error for", urls[failed]))
    ELSE IF RaisesForStatus(rs[1])
    THEN fail(HTTPException(502, "Error from media service", urls[1]))
    ELSE LET processed_images == Get(rs[1].json, "processed_images", JList(<<>>)) IN
    IF processed_images.t # "list"
    THEN fail(Unhandled("TypeError"))
    ELSE LET ids == ImageIds(processed_images.v) IN
    IF ids = <<>>
    THEN fail(HTTPException(400, "Uploader service returned no valid image IDs.", ""))
    ELSE IF ~video_present
    THEN [error |-> NoError, image_ids |-> ids, video_id |-> JNull]
    ELSE IF RaisesForStatus(rs[2])
    THEN fail(HTTPException(502, "Error from media service", urls[2]))
    ELSE [error |-> NoError, image_ids |-> ids,
          video_id |-> AcceptedVideoId(rs[2])]

\* mutant: gather without return_exceptions hands over the first failure
\* while the other task is still running
AfterGatherFirstException ==
    /\ pc = "await_gather"
    /\ \/ \A i \in DOMAIN responses : responses[i] # Pending
       \/ \E i \in DOMAIN responses : responses[i].kind = "exception"
    /\ LET o == MediaOutcome(responses, task_urls, video_task_present) IN
       IF o.error # NoError
       THEN /\ result' = o.error
            /\ pc' = "done"
            /\ UNCHANGED <<calls, image_ids, video_id>>
       ELSE /\ image_ids' = o.image_ids
            /\ video_id' = o.video_id
            /\ calls' = Append(calls, Call("description", DESCRIPTION_SERVICE_URL,
                                           [raw_text |-> payload.message]))
            /\ pc' = "await_description"
            /\ UNCHANGED result
    /\ UNCHANGED <<payload, completed, user_info_response, vendor_id,
                   video_task_present, task_urls, responses, prep_response,
                   basalam_ready_payload, final_response>>

\* lines 93-132: gather returns once every task has completed; the results
\* are examined and the description service is called
AfterGather ==
    /\ pc = "await_gather"
    /\ \A i \in DOMAIN responses : responses[i] # Pending
    /\ LET o == MediaOutcome(responses, task_urls, video_task_present) IN
       IF o.error # NoError
       THEN /\ result' = o.error
            /\ pc' = "done"
            /\ UNCHANGED <<calls, image_ids, video_id>>
       ELSE /\ image_ids' = o.image_ids
            /\ video_id' = o.video_id
            /\ calls' = Append(calls, Call("description", DESCRIPTION_SERVICE_URL,
                                           [raw_text |-> payload.message]))
            /\ pc' = "await_description"
            /\ UNCHANGED result
    /\ UNCHANGED <<payload, completed, user_info_response, vendor_id,
                   video_task_present, task_urls, responses, prep_response,
                   basalam_ready_payload, final_response>>

(***************************************************************************)
(* Steps 3 and 4: the description service and the final payload.           *)
(***************************************************************************)
\* the data objects of a 2xx description response; the second one already
\* carries a video key
DataObjects ==
    {[title |-> JStr("shirt")],
     [title |-> JStr("shirt"), video |-> JInt(9)]}

DescriptionBodies ==
    {EmptyDict, [data |-> JNull], [data |-> JObj(EmptyDict)]}
    \cup {[data |-> JObj(d)] : d \in DataObjects}

DescriptionResults ==
    TransportErrors \cup ErrorResponses \cup {Resp(200, b) : b \in DescriptionBodies}

\* mutant: photos takes the whole list, image_ids instead of image_ids[1:]
InjectPhotosAll(d, ids) ==
    IF ids # <<>>
    THEN Put(Put(d, "photo", ids[1]), "photos", ids)
    ELSE d

\* lines 144-146
InjectPhotos(d, ids) ==
    IF ids # <<>>
    THEN Put(Put(d, "photo", ids[1]), "photos", SubSeq(ids, 2, Len(ids)))
    ELSE d

\* mutant: the video key is set without the test of video_id
InjectVideoAlways(d, vid) == Put(d, "video", vid)

\* lines 148-149
InjectVideo(d, vid) == IF Truthy(vid) THEN Put(d, "video", vid) ELSE d

\* mutant: the assignment of stock (line 153) is missing
InjectDefaultsNoStock(d, vendor, stock) ==
    Put(Put(Put(Put(d, "vendor_id", vendor), "preparation_days", 1),
            "unit_type", 6304), "unit_quantity", 1)

\* lines 151-155
InjectDefaults(d, vendor, stock) ==
    Put(Put(Put(Put(Put(d, "vendor_id", vendor), "preparation_days", 1),
                "stock", stock), "unit_type", 6304), "unit_quantity", 1)

\* mutant: data is tested with "is None" instead of "not data"
DescriptionOutcomeNoneOnly(res, ids, vid, vendor, stock) ==
    IF res.kind = "exception"
    THEN [error |-> Unhandled(res.exc), payload |-> EmptyDict]
    ELSE IF RaisesForStatus(res)
    THEN [error |-> HTTPException(502, "Error from Description service", ResponseText(res)),
          payload |-> EmptyDict]
    ELSE LET data == Get(res.json, "data", JNull) IN
         IF data = JNull
         THEN [error |-> HTTPException(500,
                            "Received invalid payload from description service.", ""),
               payload |-> EmptyDict]
         ELSE [error |-> NoError,
               payload |-> InjectDefaults(
                               InjectVideo(InjectPhotos(data.v, ids), vid),
                               vendor, stock)]

\* lines 133-161, from the return of client.post to the end of the try block
DescriptionOutcome(res, ids, vid, vendor, stock) ==
    IF res.kind = "exception"
    THEN [error |-> Unhandled(res.exc), payload |-> EmptyDict]
    ELSE IF RaisesForStatus(res)
    THEN [error |-> HTTPException(502, "Error from Description service", ResponseText(res)),
          payload |-> EmptyDict]
    ELSE LET data == Get(res.json, "data", JNull) IN
         IF ~Truthy(data)
         THEN [error |-> HTTPException(500,
                            "Received invalid payload from description service.", ""),
               payload |-> EmptyDict]
         ELSE [error |-> NoError,
               payload |-> InjectDefaults(
                               InjectVideo(InjectPhotos(data.v, ids), vid),
                               vendor, stock)]

\* lines 132-168: the description response is examined, the payload is
\* completed and POSTed to the vendor's product endpoint
AfterDescription ==
    /\ pc = "await_description"
    /\ \E res \in DescriptionResults :
        LET o == DescriptionOutcome(res, image_ids, video_id, vendor_id,
                                    payload.stock)
        IN /\ prep_response' = res
           /\ completed' = Append(completed, "description")
           /\ IF o.error # NoError
              THEN /\ result' = o.error
                   /\ pc' = "done"
                   /\ UNCHANGED <<calls, basalam_ready_payload>>
              ELSE /\ basalam_ready_payload' = o.payload
                   /\ calls' = Append(calls,
                          Call("submit", BASALAM_PRODUCTS_URL_TEMPLATE(vendor_id),
                               o.payload))
                   /\ pc' = "await_submit"
                   /\ UNCHANGED result
    /\ UNCHANGED <<payload, user_info_response, vendor_id, video_task_present,
                   task_urls, responses, image_ids, video_id, final_response>>

(***************************************************************************)
(* Step 5: the final submission.                                           *)
(***************************************************************************)
SubmitResults ==
    TransportErrors \cup ErrorResponses \cup {Resp(201, [id |-> JInt(1)])}

\* mutant: final_response.raise_for_status() (line 170) is missing
SubmitOutcomeNoStatusCheck(res, submitted) ==
    IF res.kind = "exception"
    THEN Unhandled(res.exc)
    ELSE [kind |-> "success",
          submitted_payload |-> submitted,
          basalam_response |-> res.json]

\* mutant: the except clause logs the failure and does not raise
SubmitOutcomeSwallowed(res, submitted) ==
    IF res.kind = "exception"
    THEN Unhandled(res.exc)
    ELSE IF RaisesForStatus(res)
    THEN Pending
    ELSE [kind |-> "success",
          submitted_payload |-> submitted,
          basalam_response |-> res.json]

\* lines 169-182, from the return of client.post to the return or raise
SubmitOutcome(res, submitted) ==
    IF res.kind = "exception"
    THEN Unhandled(res.exc)
    ELSE IF RaisesForStatus(res)
    THEN HTTPException(502, "Final submission to Basalam API failed", ResponseText(res))
    ELSE [kind |-> "success",
          submitted_payload |-> submitted,
          basalam_response |-> res.json]

\* mutant: a failed submission is POSTed again
AfterSubmitRetry ==
    /\ pc = "await_submit"
    /\ \E res \in SubmitResults :
        /\ final_response' = res
        /\ IF res.kind = "exception" \/ RaisesForStatus(res)
           THEN /\ calls' = Append(calls,
                        Call("submit", BASALAM_PRODUCTS_URL_TEMPLATE(vendor_id),
                             basalam_ready_payload))
                /\ UNCHANGED <<pc, result>>
           ELSE /\ result' = SubmitOutcome(res, basalam_ready_payload)
                /\ pc' = "done"
                /\ UNCHANGED calls
    /\ completed' = Append(completed, "submit")
    /\ UNCHANGED <<payload, user_info_response, vendor_id,
                   video_task_present, task_urls, responses, image_ids,
                   video_id, prep_response, basalam_ready_payload>>

\* lines 168-182
AfterSubmit ==
    /\ pc = "await_submit"
    /\ \E res \in SubmitResults :
        /\ final_response' = res
        /\ result' = SubmitOutcome(res, basalam_ready_payload)
    /\ completed' = Append(completed, "submit")
    /\ pc' = "done"
    /\ UNCHANGED <<payload, calls, user_info_response, vendor_id,
                   video_task_present, task_urls, responses, image_ids,
                   video_id, prep_response, basalam_ready_payload>>

Next ==
    \/ Start
    \/ AfterUserInfo
    \/ ImageCompletes
    \/ VideoCompletes
    \/ AfterGather
    \/ AfterDescription
    \/ AfterSubmit

Spec == Init /\ [][Next]_vars

\* every issued call completes, with a response or a failure, within the
\* client's timeout (line 26), and the event loop resumes the handler
LiveSpec ==
    /\ Spec
    /\ WF_vars(Start)
    /\ WF_vars(AfterUserInfo)
    /\ WF_vars(ImageCompletes)
    /\ WF_vars(VideoCompletes)
    /\ WF_vars(AfterGather)
    /\ WF_vars(AfterDescription)
    /\ WF_vars(AfterSubmit)

(***************************************************************************)
(* Vocabulary of the properties, stated on the responses received and the  *)
(* calls issued.                                                           *)
(***************************************************************************)
Ok2xx(res) == res.kind = "response" /\ res.status_code >= 200 /\ res.status_code < 300

Non2xx(res) == res.kind = "response" /\ ~(res.status_code >= 200 /\ res.status_code < 300)

\* the user-info response carries vendor.id, neither null nor zero
HasVendorId(res) ==
    /\ "vendor" \in DOMAIN res.json
    /\ res.json["vendor"].t = "obj"
    /\ "id" \in DOMAIN res.json["vendor"].v
    /\ res.json["vendor"].v["id"] \notin {JNull, JInt(0)}

\* the entries of processed_images of an image response (none when the key
\* is absent)
Entries(res) ==
    IF "processed_images" \in DOMAIN res.json
    THEN res.json["processed_images"].v
    ELSE <<>>

\* processed_images is absent or an array
HasEntryArray(res) ==
    "processed_images" \in DOMAIN res.json => res.json["processed_images"].t = "list"

\* the ids of the entries that have an id, in the order of the array
RECURSIVE IdsInOrder(_)
IdsInOrder(entries) ==
    IF entries = <<>> THEN <<>>
    ELSE (IF "id" \in DOMAIN Head(entries) THEN <<Head(entries)["id"]>> ELSE <<>>)
         \o IdsInOrder(Tail(entries))

ImagePending == responses = <<>> \/ responses[1] = Pending

VideoIssued == "video" \in Issued

VideoPending == Len(responses) < 2 \/ responses[2] = Pending

\* the image response is 2xx and has at least one entry with an id
ImageOk ==
    /\ ~ImagePending
    /\ Ok2xx(responses[1])
    /\ HasEntryArray(responses[1])
    /\ \E i \in DOMAIN Entries(responses[1]) : "id" \in DOMAIN Entries(responses[1])[i]

\* the image response is 2xx and no entry of processed_images has an id
ImageZeroIds ==
    /\ ~ImagePending
    /\ Ok2xx(responses[1])
    /\ HasEntryArray(responses[1])
    /\ \A i \in DOMAIN Entries(responses[1]) : "id" \notin DOMAIN Entries(responses[1])[i]

UserInfoOk == Ok2xx(user_info_response) /\ HasVendorId(user_info_response)

DescriptionOk ==
    /\ Ok2xx(prep_response)
    /\ "data" \in DOMAIN prep_response.json
    /\ prep_response.json["data"].t = "obj"
    /\ DOMAIN prep_response.json["data"].v # {}

\* the body of the product-submission POST
SubmittedDraft == calls[CHOOSE i \in DOMAIN calls : calls[i].svc = "submit"].json

Failed(code) == result.kind = "HTTPException" /\ result.status_code = code

\* a call of some stage has completed with a result that fails the stage
StageFailed ==
    \/ user_info_response # Pending /\ ~UserInfoOk
    \/ ~ImagePending /\ ~ImageOk
    \/ ~VideoPending /\ ~Ok2xx(responses[2])
    \/ prep_response # Pending /\ ~DescriptionOk

\* C1  Fail-fast, no partial submission: once the request has an outcome
\* (any stage failed) no further call is issued, and the submission POST
\* has been issued only if user info was 2xx with a vendor id, the image
\* call (and the video call when issued) was 2xx with at least one image
\* id, and the description call was 2xx with a non-empty data object.
C1_FailFast ==
    /\ [](("submit" \in Issued) =>
            /\ UserInfoOk
            /\ ImageOk
            /\ (VideoIssued => ~VideoPending /\ Ok2xx(responses[2]))
            /\ DescriptionOk)
    /\ [][(result.kind \in {"HTTPException", "unhandled"} \/ StageFailed)
              => calls' = calls]_vars
    /\ []((result.kind \in {"HTTPException", "unhandled"} /\ final_response = Pending)
            => "submit" \notin Issued)

\* a request that failed at the description stage after both media calls
C1_Witness ==
    /\ Failed(502)
    /\ VideoIssued
    /\ "description" \in Issued
    /\ "submit" \notin Issued

\* C2  Ordering: the stage-2 calls are issued only after the user-info call
\* succeeded; the description call is issued only after user info
\* succeeded, every issued stage-2 call completed and stage 2 succeeded.
C2_Ordering ==
    /\ ("image" \in Issued \/ VideoIssued) =>
            "user_info" \in Completed /\ UserInfoOk
    /\ "description" \in Issued =>
            /\ "user_info" \in Completed /\ UserInfoOk
            /\ "image" \in Completed
            /\ VideoIssued => "video" \in Completed
            /\ ImageOk
            /\ VideoIssued => Ok2xx(responses[2])
            /\ "description" \notin Completed =>
                   Len(completed) = Len(calls) - 1

\* the description call issued after the video call completed before the
\* image call
C2_Witness ==
    /\ "description" \in Issued
    /\ VideoIssued
    /\ Pos(completed, "video") < Pos(completed, "image")

\* the opposite order of completion is reachable as well
C2_WitnessImageFirst ==
    /\ "description" \in Issued
    /\ VideoIssued
    /\ Pos(completed, "image") < Pos(completed, "video")

\* C3  Whenever the submission call has been issued, the collected image
\* ids are non-empty, each is the id of an entry of processed_images that
\* has an id, and the submitted draft's photo is the first of them.
C3_ImageIdsBeforeSubmit ==
    "submit" \in Issued =>
        /\ image_ids # <<>>
        /\ Len(image_ids) =
               Cardinality({i \in DOMAIN Entries(responses[1]) :
                               "id" \in DOMAIN Entries(responses[1])[i]})
        /\ \A k \in DOMAIN image_ids :
               \E i \in DOMAIN Entries(responses[1]) :
                   /\ "id" \in DOMAIN Entries(responses[1])[i]
                   /\ Entries(responses[1])[i]["id"] = image_ids[k]
        /\ "photo" \in DOMAIN SubmittedDraft
        /\ SubmittedDraft["photo"] = image_ids[1]

\* submitted although one entry of processed_images had no id
C3_Witness ==
    /\ "submit" \in Issued
    /\ Len(Entries(responses[1])) > Len(image_ids)

\* C4  A non-2xx user-info response fails the request with 401 and no
\* image, video, description or submission call is ever issued.
C4_UserInfoRejected ==
    Non2xx(user_info_response) =>
        /\ Failed(401)
        /\ pc = "done"
        /\ Issued = {"user_info"}

C4_Witness == Non2xx(user_info_response) /\ pc = "done"

\* C5 as stated: zero valid image ids fail the request with 400 and no
\* description or submission call is made, whatever the video-check result.
C5_Original ==
    ImageZeroIds =>
        /\ "description" \notin Issued
        /\ "submit" \notin Issued
        /\ pc # "await_gather" => Failed(400)

\* C5  If the image response is 2xx and no entry of processed_images has an
\* id, no description or submission call is made, and the request fails
\* with 400 unless the video-check call failed at transport level, in which
\* case it fails with 504 naming the video-check URL.
C5_ZeroImageIds ==
    ImageZeroIds =>
        /\ "description" \notin Issued
        /\ "submit" \notin Issued
        /\ pc # "await_gather" =>
               /\ pc = "done"
               /\ IF VideoIssued /\ responses[2].kind = "exception"
                  THEN Failed(504) /\ result.detail[2] = VIDEO_CHECK_URL
                  ELSE Failed(400)

\* zero ids next to a non-2xx video response: the 400 is reported
C5_Witness ==
    /\ ImageZeroIds
    /\ Entries(responses[1]) # <<>>
    /\ VideoIssued
    /\ ~VideoPending
    /\ Non2xx(responses[2])
    /\ Failed(400)

\* the video response is 2xx and its is_forbidden is true
FlaggedForbidden(res) ==
    /\ Ok2xx(res)
    /\ "is_forbidden" \in DOMAIN res.json
    /\ res.json["is_forbidden"] = JBool(TRUE)

\* the video response is 2xx and is_forbidden is false or absent
NotFlagged(res) == Ok2xx(res) /\ ~FlaggedForbidden(res)

\* the id of the video response, null when the key is absent
ReturnedVideoId(res) == IF "id" \in DOMAIN res.json THEN res.json["id"] ELSE JNull

\* the draft has the video key exactly as the description data has it
VideoKeyAsInData ==
    LET data == prep_response.json["data"].v IN
    /\ ("video" \in DOMAIN SubmittedDraft) = ("video" \in DOMAIN data)
    /\ "video" \in DOMAIN data => SubmittedDraft["video"] = data["video"]

\* C6 as stated: with a video link and a response not flagged forbidden the
\* submitted draft has a video field equal to the returned id, for every id
\* value, a missing or zero id included.
C6_Original ==
    ("submit" \in Issued /\ VideoLink(payload) # JNull /\ NotFlagged(responses[2])) =>
        /\ "video" \in DOMAIN SubmittedDraft
        /\ SubmittedDraft["video"] = ReturnedVideoId(responses[2])

\* C6  With a video link and a response not flagged forbidden, the submitted
\* draft has a video field equal to the returned id when that id is present,
\* non-null and non-zero; with a missing, null or zero id the handler sets
\* no video field and the draft keeps the video key of the description data.
C6_VideoInjected ==
    ("submit" \in Issued /\ VideoLink(payload) # JNull /\ NotFlagged(responses[2])) =>
        IF ReturnedVideoId(responses[2]) \notin {JNull, JInt(0)}
        THEN /\ "video" \in DOMAIN SubmittedDraft
             /\ SubmittedDraft["video"] = ReturnedVideoId(responses[2])
        ELSE VideoKeyAsInData

\* an accepted video id replaces the video key the description data had
C6_Witness ==
    /\ "submit" \in Issued
    /\ VideoLink(payload) # JNull
    /\ NotFlagged(responses[2])
    /\ ReturnedVideoId(responses[2]) = JInt(7)
    /\ "video" \in DOMAIN prep_response.json["data"].v
    /\ SubmittedDraft["video"] = JInt(7)

\* C7 as stated: a forbidden video never sets the video id, does not fail
\* the request, and the submitted draft has no video field for every data
\* object, one that already has a video key included.
C7_Original ==
    (VideoIssued /\ ~VideoPending /\ FlaggedForbidden(responses[2])) =>
        /\ video_id = JNull
        /\ (ImageOk /\ pc # "await_gather") => "description" \in Issued
        /\ "submit" \in Issued => "video" \notin DOMAIN SubmittedDraft

\* C7  A forbidden video never sets the video id and does not fail the
\* request, and the handler adds no video field: the submitted draft has a
\* video key only when the description data already had one, with the
\* data's value.
C7_ForbiddenVideo ==
    (VideoIssued /\ ~VideoPending /\ FlaggedForbidden(responses[2])) =>
        /\ video_id = JNull
        /\ (ImageOk /\ pc # "await_gather") => "description" \in Issued
        /\ "submit" \in Issued => VideoKeyAsInData

\* a request with a forbidden video that carried an id ends in success
\* without a video field
C7_Witness ==
    /\ VideoIssued
    /\ ~VideoPending
    /\ FlaggedForbidden(responses[2])
    /\ ReturnedVideoId(responses[2]) = JInt(7)
    /\ result.kind = "success"
    /\ "video" \notin DOMAIN result.submitted_payload

\* C8  For a payload with no video link the video-check call is never
\* issued and stage 2 is the image-upload call alone.
C8_NoVideoCall ==
    VideoLink(payload) = JNull =>
        /\ ~VideoIssued
        /\ ~video_task_present
        /\ "image" \in Issued =>
               /\ task_urls = <<SMART_UPLOADER_URL>>
               /\ Len(responses) = 1
               /\ \A i \in DOMAIN calls :
                      calls[i].svc \in {"user_info", "image", "description", "submit"}

\* stage 2 of a request without a video link has run and succeeded
C8_Witness ==
    /\ VideoLink(payload) = JNull
    /\ "description" \in Issued

C10_InvalidDescription ==
    (/\ Ok2xx(prep_response)
     /\ \/ "data" \notin DOMAIN prep_response.json
        \/ prep_response.json["data"] \in {JNull, JObj(EmptyDict)}) =>
        /\ Failed(500)
        /\ pc = "done"
        /\ "submit" \notin Issued

C10_Witness ==
    /\ Ok2xx(prep_response)
    /\ "data" \notin DOMAIN prep_response.json
    /\ pc = "done"

\* an empty data object is rejected in the same way
C10_WitnessEmptyData ==
    /\ Ok2xx(prep_response)
    /\ "data" \in DOMAIN prep_response.json
    /\ prep_response.json["data"] = JObj(EmptyDict)
    /\ Failed(500)

\* some call of the request has completed with a transport failure or a
\* non-2xx response
DownstreamFailure ==
    \/ user_info_response.kind = "exception" \/ Non2xx(user_info_response)
    \/ \E i \in DOMAIN responses :
           responses[i].kind = "exception" \/ Non2xx(responses[i])
    \/ prep_response.kind = "exception" \/ Non2xx(prep_response)
    \/ final_response.kind = "exception" \/ Non2xx(final_response)

\* C11  Every downstream failure of each of the five calls, a non-2xx
\* response or a transport failure, ends the request with one of the
\* user-facing errors 401, 400, 504, 502, 500 raised by the handler; none
\* escapes the handler untranslated and none is swallowed.
C11_AllTranslated ==
    (pc = "done" /\ DownstreamFailure) =>
        /\ result.kind = "HTTPException"
        /\ result.status_code \in {401, 400, 504, 502, 500}

\* the URLs of the stage-2 calls that ended in a transport failure
FailedMediaUrls ==
    {calls[i].url : i \in {j \in DOMAIN calls :
        \/ calls[j].svc = "image" /\ responses[1].kind = "exception"
        \/ calls[j].svc = "video" /\ responses[2].kind = "exception"}}

\* C12  A transport failure of the image-upload call or of the video-check
\* call fails the request with 504, the detail names the URL of a call
\* that failed, and no description or submission call follows.
C12_MediaTransportFailure ==
    (/\ pc \notin {"start", "await_user_info", "await_gather"}
     /\ \E i \in DOMAIN responses : responses[i].kind = "exception") =>
        /\ pc = "done"
        /\ Failed(504)
        /\ result.detail[1] = "Network error for"
        /\ result.detail[2] \in FailedMediaUrls
        /\ "description" \notin Issued
        /\ "submit" \notin Issued

\* the video call alone failed at transport level, the image call was fine
C12_Witness ==
    /\ pc = "done"
    /\ VideoIssued
    /\ ImageOk
    /\ responses[2].kind = "exception"
    /\ Failed(504)
    /\ result.detail[2] = VIDEO_CHECK_URL

\* the handler has examined the results of stage 2
Stage2Examined == pc \notin {"start", "await_user_info", "await_gather"} /\ responses # <<>>

MediaTransportFailure == \E i \in DOMAIN responses : responses[i].kind = "exception"

\* the URLs of the stage-2 calls that returned a non-2xx response
Non2xxMediaUrls ==
    {calls[i].url : i \in {j \in DOMAIN calls :
        \/ calls[j].svc = "image" /\ Non2xx(responses[1])
        \/ calls[j].svc = "video" /\ Non2xx(responses[2])}}

\* C13 as stated: a non-2xx response of the image-upload call or of the
\* video-check call fails the request with 502 naming the service that
\* returned it, whatever the outcome of the other stage-2 call.
C13_Original ==
    (Stage2Examined /\ \E i \in DOMAIN responses : Non2xx(responses[i])) =>
        /\ Failed(502)
        /\ result.detail[2] \in Non2xxMediaUrls

\* C13  A non-2xx image response fails the request with 502 naming the
\* image service unless a stage-2 call failed at transport level (then
\* 504).  A non-2xx video response fails the request in every case, with
\* 502 naming the video service exactly when the image response was 2xx
\* with at least one image id; otherwise the image call decides: 504 for a
\* transport failure, 502 naming the image service, 400 for zero ids.
C13_MediaBadGateway ==
    /\ (Stage2Examined /\ Non2xx(responses[1])) =>
           /\ pc = "done"
           /\ IF MediaTransportFailure
              THEN Failed(504)
              ELSE Failed(502) /\ result.detail = <<"Error from media service", SMART_UPLOADER_URL>>
    /\ (Stage2Examined /\ VideoIssued /\ Non2xx(responses[2])) =>
           /\ pc = "done"
           /\ result.kind \in {"HTTPException", "unhandled"}
           /\ "description" \notin Issued
           /\ (Failed(502) /\ result.detail[2] = VIDEO_CHECK_URL) = ImageOk
           /\ responses[1].kind = "exception" => Failed(504)
           /\ Non2xx(responses[1]) =>
                  Failed(502) /\ result.detail[2] = SMART_UPLOADER_URL
           /\ ImageZeroIds => Failed(400)

\* a non-2xx video response next to a good image response
C13_Witness ==
    /\ Stage2Examined
    /\ VideoIssued
    /\ ImageOk
    /\ Non2xx(responses[2])
    /\ Failed(502)
    /\ result.detail[2] = VIDEO_CHECK_URL

\* vendor.id of a user-info body is absent or null: no vendor key, a null
\* vendor, a vendor object without an id, or with a null id
VendorIdAbsentOrNull(res) ==
    \/ "vendor" \notin DOMAIN res.json
    \/ res.json["vendor"] = JNull
    \/ /\ res.json["vendor"].t = "obj"
       /\ \/ "id" \notin DOMAIN res.json["vendor"].v
          \/ res.json["vendor"].v["id"] = JNull

\* C14  After a 2xx user-info response whose vendor.id is absent or null
\* the request fails with 400 and no later call is issued.
C14_NoVendorAccount ==
    (Ok2xx(user_info_response) /\ VendorIdAbsentOrNull(user_info_response)) =>
        /\ pc = "done"
        /\ Failed(400)
        /\ Issued = {"user_info"}

\* a video id was accepted: the video call was issued, its response is not
\* flagged forbidden and carries an id that is neither null nor zero
VideoAccepted ==
    /\ VideoIssued
    /\ NotFlagged(responses[2])
    /\ ReturnedVideoId(responses[2]) \notin {JNull, JInt(0)}

\* the description data with the media ids, the vendor id, the stock and
\* the fixed fields put over it
ComposedDraft ==
    LET data == prep_response.json["data"].v
        ids == IdsInOrder(Entries(responses[1]))
        added == {"photo", "photos", "vendor_id", "stock", "preparation_days",
                  "unit_type", "unit_quantity"}
                 \cup (IF VideoAccepted THEN {"video"} ELSE {})
    IN [k \in (DOMAIN data) \cup added |->
           CASE k = "photo" -> Head(ids)
             [] k = "photos" -> Tail(ids)
             [] k = "vendor_id" -> user_info_response.json["vendor"].v["id"]
             [] k = "stock" -> payload.stock
             [] k = "preparation_days" -> 1
             [] k = "unit_type" -> 6304
             [] k = "unit_quantity" -> 1
             [] k = "video" /\ VideoAccepted -> ReturnedVideoId(responses[2])
             [] OTHER -> data[k]]

\* C15  The body POSTed to the product endpoint is the description data
\* plus photo, photos, vendor_id, stock, preparation_days = 1,
\* unit_type = 6304, unit_quantity = 1, and a video key added only when a
\* video id was accepted; the submitted_payload of the success result is
\* that body.
C15_DraftComposition ==
    /\ "submit" \in Issued => SubmittedDraft = ComposedDraft
    /\ result.kind = "success" =>
           /\ result.submitted_payload = SubmittedDraft
           /\ result.basalam_response = final_response.json

\* vendor 42, image ids 101 and 102, no video, stock 5, description "shirt"
C15_Witness ==
    /\ result.kind = "success"
    /\ VideoLink(payload) = JNull
    /\ result.submitted_payload =
           [title |-> JStr("shirt"), photo |-> JInt(101), photos |-> <<JInt(102)>>,
            vendor_id |-> JInt(42), preparation_days |-> 1, stock |-> 5,
            unit_type |-> 6304, unit_quantity |-> 1]

\* the number of calls issued to a service
CallCount(svc) == Cardinality({i \in DOMAIN calls : calls[i].svc = svc})

\* C16  No stage is retried: each of the five downstream services is called
\* at most once in a request, a call that failed included, so at most five
\* calls are issued and at most one submission POST.
C16_NoRetry ==
    /\ \A svc \in {"user_info", "image", "video", "description", "submit"} :
           CallCount(svc) <= 1
    /\ Len(calls) <= 5
    /\ Len(completed) <= Len(calls)
    /\ pc = "done" => Len(completed) = Len(calls)

\* all five services were called and the submission failed: the request is
\* over with exactly five calls
C16_Witness ==
    /\ pc = "done"
    /\ Len(calls) = 5
    /\ Non2xx(final_response)
    /\ CallCount("submit") = 1

\* C17  A non-2xx response of the description service fails the request
\* with 502 and no submission call is issued; a non-2xx response of the
\* product endpoint fails the request with 502 and no success result is
\* returned.
C17_BadGatewayLateStages ==
    /\ Non2xx(prep_response) =>
           /\ pc = "done"
           /\ Failed(502)
           /\ result.detail[1] = "Error from Description service"
           /\ "submit" \notin Issued
    /\ Non2xx(final_response) =>
           /\ pc = "done"
           /\ Failed(502)
           /\ result.detail[1] = "Final submission to Basalam API failed"
           /\ result.kind # "success"

\* the product endpoint answered the submission with a non-2xx status
C17_Witness ==
    /\ Non2xx(final_response)
    /\ "submit" \in Completed
    /\ Failed(502)

\* the description service answered with a non-2xx status
C17_WitnessDescription ==
    /\ Non2xx(prep_response)
    /\ Failed(502)
    /\ "submit" \notin Issued

\* C18  When every issued call completes, the request terminates with
\* exactly one outcome: the success result or one error, never both and
\* never neither; the outcome is set when the request ends and not changed.
C18_Termination ==
    /\ <>(pc = "done")
    /\ [](pc = "done" =>
            \/ /\ result.kind = "success"
               /\ Ok2xx(final_response)
            \/ /\ result.kind \in {"HTTPException", "unhandled"}
               /\ ~Ok2xx(final_response))
    /\ [](pc # "done" => result = Pending)
    /\ [][result # Pending => result' = result]_vars

\* a request that ended with the success result
C18_Witness ==
    /\ pc = "done"
    /\ result.kind = "success"
    /\ Len(completed) = 5

\* a request that ended with an error
C18_WitnessError ==
    /\ pc = "done"
    /\ result.kind = "HTTPException"

\* what the two results of stage 2 lead to, read off the results alone:
\* an error status, "unhandled" for a malformed image body, or "proceed"
Stage2Verdict(rs) ==
    IF \E i \in DOMAIN rs : rs[i].kind = "exception" THEN "504"
    ELSE IF \E i \in DOMAIN rs : Non2xx(rs[i])
         THEN (IF Ok2xx(rs[1]) /\ HasEntryArray(rs[1])
                  /\ \A e \in DOMAIN Entries(rs[1]) : "id" \notin DOMAIN Entries(rs[1])[e]
               THEN "400"
               ELSE IF Ok2xx(rs[1]) /\ ~HasEntryArray(rs[1]) THEN "unhandled"
               ELSE "502")
    ELSE IF ~HasEntryArray(rs[1]) THEN "unhandled"
    ELSE IF \A e \in DOMAIN Entries(rs[1]) : "id" \notin DOMAIN Entries(rs[1])[e]
         THEN "400"
    ELSE "proceed"

\* what the handler did after stage 2
Stage2Taken ==
    IF "description" \in Issued THEN "proceed"
    ELSE IF result.kind = "unhandled" THEN "unhandled"
    ELSE IF Failed(504) THEN "504"
    ELSE IF Failed(502) THEN "502"
    ELSE IF Failed(400) THEN "400"
    ELSE "other"

\* C19  Fork/join: with a video link both stage-2 calls are issued
\* together; while a call of stage 2 is pending no result is examined and
\* no outcome exists, also when the other call has already failed; and
\* what follows stage 2 is determined by the two results, not by the order
\* in which they arrived.
C19_ForkJoin ==
    /\ ("image" \in Issued /\ VideoLink(payload) # JNull) =>
           /\ VideoIssued
           /\ Len(responses) = 2
    /\ (responses # <<>> /\ \E i \in DOMAIN responses : responses[i] = Pending) =>
           /\ pc = "await_gather"
           /\ result = Pending
           /\ image_ids = <<>>
           /\ video_id = JNull
           /\ "description" \notin Issued
    /\ Stage2Examined =>
           /\ \A i \in DOMAIN responses : responses[i] # Pending
           /\ Stage2Taken = Stage2Verdict(responses)

\* the image call failed first, the video call was still awaited, then the
\* request failed
C19_Witness ==
    /\ pc = "done"
    /\ VideoIssued
    /\ responses[1].kind = "exception"
    /\ Ok2xx(responses[2])
    /\ Pos(completed, "image") < Pos(completed, "video")
    /\ Failed(504)

\* the same two results arriving in the other order give the same outcome
C19_WitnessOtherOrder ==
    /\ pc = "done"
    /\ VideoIssued
    /\ responses[1].kind = "exception"
    /\ Ok2xx(responses[2])
    /\ Pos(completed, "video") < Pos(completed, "image")
    /\ Failed(504)

VideoTransportFailure == VideoIssued /\ responses[2].kind = "exception"

VideoNon2xx == VideoIssued /\ Non2xx(responses[2])

\* the one error reported for stage 2
Reported(code, msg, url) ==
    result = [kind |-> "HTTPException", status_code |-> code, detail |-> <<msg, url>>]

\* C20  Stage-2 error precedence: of the failure conditions that hold, one
\* error is reported, by the priority image transport failure (504), video
\* transport failure (504), non-2xx image response (502), zero image ids
\* (400), non-2xx video response (502).  So a transport failure always
\* gives 504, and a non-2xx video response is reported only when the image
\* response was 2xx with at least one id.
C20_Precedence ==
    Stage2Examined =>
        /\ responses[1].kind = "exception" =>
               Reported(504, "Network error for", SMART_UPLOADER_URL)
        /\ (responses[1].kind # "exception" /\ VideoTransportFailure) =>
               Reported(504, "Network error for", VIDEO_CHECK_URL)
        /\ (~MediaTransportFailure /\ Non2xx(responses[1])) =>
               Reported(502, "Error from media service", SMART_UPLOADER_URL)
        /\ (~MediaTransportFailure /\ ImageZeroIds) =>
               Reported(400, "Uploader service returned no valid image IDs.", "")
        /\ (ImageOk /\ VideoNon2xx) =>
               Reported(502, "Error from media service", VIDEO_CHECK_URL)
        /\ MediaTransportFailure => Failed(504)
        /\ (Failed(502) /\ result.detail[2] = VIDEO_CHECK_URL) =>
               ImageOk /\ VideoNon2xx

\* a non-2xx image response next to a transport failure of the video call
C20_Witness ==
    /\ Stage2Examined
    /\ Non2xx(responses[1])
    /\ VideoTransportFailure
    /\ Reported(504, "Network error for", VIDEO_CHECK_URL)

\* zero image ids next to a non-2xx video response
C20_WitnessZeroIds ==
    /\ Stage2Examined
    /\ ImageZeroIds
    /\ VideoNon2xx
    /\ Failed(400)

====
